---- MODULE Spec2Model ----
(***************************************************************************)
(* Model of the interval scheduling pass of generate_timeline in           *)
(* "Noumi/Production Planner/appv2.py" (lines 25-190).                     *)
(*                                                                         *)
(* Time is counted in whole minutes relative to the plan's 'Date from'     *)
(* (start_time_of_week = 0); timedelta values are minute counts.  The      *)
(* plan rows are chosen so that quantity / (speed * efficiency) hours is   *)
(* a whole number of minutes.  line efficiency is kept in percent.         *)
(* The 'duration_hours' key of a task is a derived float (end - start)     *)
(* and is not carried.  'Date from' is taken to parse: otherwise lines     *)
(* 28-32 return before anything is scheduled.                              *)
(***************************************************************************)
EXTENDS Integers, Sequences, FiniteSets, TLC

VARIABLES
    df,                              \* the input table (rows + row-0 wash cells)
    pc,                              \* position in generate_timeline
    i,                               \* row index of df.iterrows() (0-based)
    tasks,                           \* the committed interval list
    current_time,
    wash_duration,
    gap_duration,
    first_wash_time,                 \* [present, t]; present = FALSE is None
    last_wash_end_time,
    changeover_end_time,
    next_wash_start_time,
    scheduled_washes_in_changeover,
    processing_end_time,
    total_wash_overlap_duration,
    entryTime                        \* current_time when the row was entered

vars == <<df, pc, i, tasks, current_time, wash_duration, gap_duration,
          first_wash_time, last_wash_end_time, changeover_end_time,
          next_wash_start_time, scheduled_washes_in_changeover,
          processing_end_time, total_wash_overlap_duration, entryTime>>

(***************************************************************************)
(* Bounds of the explored input space.                                     *)
(***************************************************************************)
MaxRows == 2
MaxTasks == 32

(***************************************************************************)
(* Input cells of row 0.                                                   *)
(***************************************************************************)
IntCell(v) == [kind |-> "int", val |-> v]
GarbageCell == [kind |-> "garbage", val |-> 0]
MissingCell == [kind |-> "missing", val |-> 0]
TimeCell(t) == [kind |-> "time", val |-> t]

Row(q, s, e, c) ==
    [name |-> "A", quantity |-> q, speed |-> s, efficiency |-> e, change_over |-> c]

RowChoices == { Row(q, 60, e, c) : q \in {3, 5}, e \in {50, 100}, c \in {0, 3} }

RowLists == UNION { [1..n -> RowChoices] : n \in 1..MaxRows }

DurationCells == { MissingCell, IntCell(0), IntCell(1), IntCell(2) }
GapCells == { GarbageCell, IntCell(0), IntCell(2), IntCell(3) }
FirstWashCells == { MissingCell, TimeCell(-7), TimeCell(2), TimeCell(7) }

GenericPlans ==
    { [rows |-> r, Duration |-> d, Gap |-> g, FirstWashTime |-> f] :
        r \in RowLists, d \in DurationCells, g \in GapCells, f \in FirstWashCells }

\* The two scenarios of the specification's section 8.
TwoProductRows == <<Row(600, 100, 100, 0), Row(600, 100, 100, 45)>>

TwoProductPlan ==
    [rows |-> TwoProductRows, Duration |-> IntCell(30), Gap |-> IntCell(120),
     FirstWashTime |-> MissingCell]

PreAnchorPlan ==
    [rows |-> TwoProductRows, Duration |-> IntCell(20), Gap |-> IntCell(120),
     FirstWashTime |-> TimeCell(-60)]

Plans == GenericPlans \cup {TwoProductPlan, PreAnchorPlan}

(***************************************************************************)
(* Helpers                                                                 *)
(***************************************************************************)
Max2(a, b) == IF a >= b THEN a ELSE b
Min2(a, b) == IF a <= b THEN a ELSE b

Range(s) == { s[k] : k \in DOMAIN s }

\* int(df.loc[0, 'Duration']) / int(df.loc[0, 'Gap']): raises on a missing
\* column (KeyError) or an unconvertible cell (ValueError).
Parses(cell) == cell.kind = "int"

\* lines 38-53: both values, or both zero when either conversion raises.
WashDurationOf(d) == IF Parses(d.Duration) /\ Parses(d.Gap) THEN d.Duration.val ELSE 0
GapDurationOf(d) == IF Parses(d.Duration) /\ Parses(d.Gap) THEN d.Gap.val ELSE 0

\* line 101 / 106 / 164: strict interval intersection.
Overlaps(a1, a2, b1, b2) == Max2(a1, b1) < Min2(a2, b2)

WashTask(s, e, o) == [start |-> s, end |-> e, task |-> "wash", product |-> "Scheduled Wash", order |-> o]
ChangeoverTask(s, e, row, o) == [start |-> s, end |-> e, task |-> "changeover", product |-> row.name, order |-> o]
ProcessingTask(s, e, row, o) == [start |-> s, end |-> e, task |-> "processing", product |-> row.name, order |-> o]

\* lines 116, 151: the order key of every wash but the pre-anchored one.
WashOrder == -1

\* Mutant: the pre-anchored wash tagged like any other wash.
PreAnchorOrderAsWash == WashOrder

\* line 74: the order key of the pre-anchored first wash.
PreAnchorOrder == -2

\* lines 130-132: quantity / (speed * efficiency) hours, in minutes.
ProcessingMinutes(row) == (row.quantity * 60 * 100) \div (row.speed * row.efficiency)

\* Mutant: the next candidate starts right at the previous wash's end.
NextWashStartNoGap(last, gap) == last

\* lines 92, 98, 136, 154: last_wash_end_time + gap_duration
NextWashStart(last, gap) == last + gap

\* line 89
ChangeoverEnd(t, row) == t + row.change_over

\* Mutant: a wash that only abuts the window counts as overlapping.
RECURSIVE SelectTouching(_, _, _)
SelectTouching(ws, a, b) ==
    IF ws = <<>> THEN <<>>
    ELSE LET w == Head(ws)
             rest == SelectTouching(Tail(ws), a, b)
         IN IF Max2(a, w.start) <= Min2(b, w.end) THEN <<w>> \o rest ELSE rest

\* line 106: the washes of the changeover list that intersect the window.
RECURSIVE SelectOverlapping(_, _, _)
SelectOverlapping(ws, a, b) ==
    IF ws = <<>> THEN <<>>
    ELSE LET w == Head(ws)
             rest == SelectOverlapping(Tail(ws), a, b)
         IN IF Overlaps(a, b, w.start, w.end) THEN <<w>> \o rest ELSE rest

\* line 108: max(wash['end'] for wash in overlapping_washes)
MaxEnd(ws) == CHOOSE m \in { w.end : w \in Range(ws) } : \A w \in Range(ws) : w.end <= m

\* lines 109-117
RECURSIVE WashTasksOf(_)
WashTasksOf(ws) ==
    IF ws = <<>> THEN <<>>
    ELSE <<WashTask(Head(ws).start, Head(ws).end, WashOrder)>> \o WashTasksOf(Tail(ws))

\* lines 139-140
OverlapStart == Max2(current_time, next_wash_start_time)
OverlapEnd ==
    Min2(processing_end_time + total_wash_overlap_duration,
         next_wash_start_time + wash_duration)

\* lines 162-165: (start, end) of the committed washes intersecting the
\* original window [current_time, processing_end_time).
RECURSIVE ScheduledWashIntervals(_, _, _)
ScheduledWashIntervals(ts, a, b) ==
    IF ts = <<>> THEN <<>>
    ELSE LET t == Head(ts)
             rest == ScheduledWashIntervals(Tail(ts), a, b)
         IN IF t.task = "wash" /\ Overlaps(a, b, t.start, t.end)
            THEN <<(<<t.start, t.end>>)>> \o rest ELSE rest

\* line 166: list.sort() on (start, end) tuples, lexicographic.
TupleLeq(x, y) == x[1] < y[1] \/ (x[1] = y[1] /\ x[2] <= y[2])

RECURSIVE Insert(_, _)
Insert(x, s) ==
    IF s = <<>> THEN <<x>>
    ELSE IF TupleLeq(x, Head(s)) THEN <<x>> \o s
         ELSE <<Head(s)>> \o Insert(x, Tail(s))

RECURSIVE SortIntervals(_)
SortIntervals(s) == IF s = <<>> THEN <<>> ELSE Insert(Head(s), SortIntervals(Tail(s)))

\* Mutant: the segment cursor is not moved past the wash.
RECURSIVE WalkSegmentsCursorKept(_, _, _, _)
WalkSegmentsCursorKept(ws, seg, row, o) ==
    IF ws = <<>> THEN [out |-> <<>>, seg |-> seg]
    ELSE LET w == Head(ws)
             emit == IF seg < w[1] THEN <<ProcessingTask(seg, w[1], row, o)>> ELSE <<>>
             r == WalkSegmentsCursorKept(Tail(ws), seg, row, o)
         IN [out |-> emit \o r.out, seg |-> r.seg]

\* lines 168-178: walk the sorted washes; the result is the processing
\* segments emitted and the final segment_start_time.
RECURSIVE WalkSegments(_, _, _, _)
WalkSegments(ws, seg, row, o) ==
    IF ws = <<>> THEN [out |-> <<>>, seg |-> seg]
    ELSE LET w == Head(ws)
             emit == IF seg < w[1] THEN <<ProcessingTask(seg, w[1], row, o)>> ELSE <<>>
             r == WalkSegments(Tail(ws), Max2(seg, w[2]), row, o)
         IN [out |-> emit \o r.out, seg |-> r.seg]

\* Mutant: the processing window is not extended by the wash overlap.
ExtendedProcessingEndNominal(pe, tot) == pe

\* line 158
ExtendedProcessingEnd(pe, tot) == pe + tot

\* lines 160-188: all processing tasks of one row.
ProcessingSegments(ts, cur, pe, ext, row, o) ==
    LET walk == WalkSegments(SortIntervals(ScheduledWashIntervals(ts, cur, pe)), cur, row, o)
    IN walk.out \o (IF walk.seg < ext THEN <<ProcessingTask(walk.seg, ext, row, o)>> ELSE <<>>)

CurrentRow == df.rows[i + 1]

(***************************************************************************)
(* Initial state: tasks = [], current_time = start_time_of_week            *)
(* (lines 25-34).                                                          *)
(***************************************************************************)
Init ==
    /\ df \in Plans
    /\ pc = "parse_wash"
    /\ i = 0
    /\ tasks = <<>>
    /\ current_time = 0
    /\ wash_duration = 0
    /\ gap_duration = 0
    /\ first_wash_time = [present |-> FALSE, t |-> 0]
    /\ last_wash_end_time = 0
    /\ changeover_end_time = 0
    /\ next_wash_start_time = 0
    /\ scheduled_washes_in_changeover = <<>>
    /\ processing_end_time = 0
    /\ total_wash_overlap_duration = 0
    /\ entryTime = 0

\* lines 36-53
ParseWashPolicy ==
    /\ pc = "parse_wash"
    /\ wash_duration' = WashDurationOf(df)
    /\ gap_duration' = GapDurationOf(df)
    /\ pc' = "first_wash"
    /\ UNCHANGED <<df, i, tasks, current_time, first_wash_time, last_wash_end_time,
                   changeover_end_time, next_wash_start_time,
                   scheduled_washes_in_changeover, processing_end_time,
                   total_wash_overlap_duration, entryTime>>

\* lines 55-76
AnchorFirstWash ==
    /\ pc = "first_wash"
    /\ IF df.FirstWashTime.kind = "time"
       THEN LET fwt == df.FirstWashTime.val IN
            /\ first_wash_time' = [present |-> TRUE, t |-> fwt]
            /\ IF wash_duration > 0
               THEN /\ tasks' = Append(tasks, WashTask(fwt, fwt + wash_duration, PreAnchorOrder))
                    /\ last_wash_end_time' = fwt + wash_duration
               ELSE /\ tasks' = tasks
                    /\ last_wash_end_time' = fwt
       ELSE /\ first_wash_time' = [present |-> FALSE, t |-> 0]
            /\ last_wash_end_time' = 0
            /\ tasks' = tasks
    /\ pc' = "row"
    /\ UNCHANGED <<df, i, current_time, wash_duration, gap_duration,
                   changeover_end_time, next_wash_start_time,
                   scheduled_washes_in_changeover, processing_end_time,
                   total_wash_overlap_duration, entryTime>>

\* lines 79-87 with i = 0: the changeover phase is skipped.
FirstRow ==
    /\ pc = "row"
    /\ i = 0
    /\ entryTime' = current_time
    /\ pc' = "processing"
    /\ UNCHANGED <<df, i, tasks, current_time, wash_duration, gap_duration,
                   first_wash_time, last_wash_end_time, changeover_end_time,
                   next_wash_start_time, scheduled_washes_in_changeover,
                   processing_end_time, total_wash_overlap_duration>>

\* lines 79-93 with i > 0
BeginChangeover ==
    /\ pc = "row"
    /\ i > 0
    /\ entryTime' = current_time
    /\ changeover_end_time' = ChangeoverEnd(current_time, CurrentRow)
    /\ next_wash_start_time' = NextWashStart(last_wash_end_time, gap_duration)
    /\ scheduled_washes_in_changeover' = <<>>
    /\ pc' = "co_loop"
    /\ UNCHANGED <<df, i, tasks, current_time, wash_duration, gap_duration,
                   first_wash_time, last_wash_end_time, processing_end_time,
                   total_wash_overlap_duration>>

\* lines 94-98: one iteration of the changeover wash loop.
ChangeoverWashStep ==
    /\ pc = "co_loop"
    /\ next_wash_start_time < changeover_end_time
    /\ Len(scheduled_washes_in_changeover) < MaxTasks
    /\ LET wash_end_time == next_wash_start_time + wash_duration IN
       /\ scheduled_washes_in_changeover' =
              Append(scheduled_washes_in_changeover,
                     [start |-> next_wash_start_time, end |-> wash_end_time])
       /\ last_wash_end_time' = wash_end_time
       /\ next_wash_start_time' = NextWashStart(wash_end_time, gap_duration)
    /\ UNCHANGED <<df, pc, i, tasks, current_time, wash_duration, gap_duration,
                   first_wash_time, changeover_end_time, processing_end_time,
                   total_wash_overlap_duration, entryTime>>

\* Mutant: the cursor resumes where the earliest overlapping wash starts.
SuppressedCursorAtWashStart(overlapping_washes) ==
    CHOOSE m \in { w.start : w \in Range(overlapping_washes) } :
        \A w \in Range(overlapping_washes) : m <= w.start

\* line 108
SuppressedCursor(overlapping_washes) == MaxEnd(overlapping_washes)

\* lines 100-117: some enumerated wash intersects the changeover window.
ChangeoverSuppressed ==
    /\ pc = "co_loop"
    /\ ~(next_wash_start_time < changeover_end_time)
    /\ LET overlapping_washes ==
               SelectOverlapping(scheduled_washes_in_changeover,
                                 current_time, changeover_end_time) IN
       /\ overlapping_washes # <<>>
       /\ current_time' = SuppressedCursor(overlapping_washes)
       /\ tasks' = tasks \o WashTasksOf(scheduled_washes_in_changeover)
    /\ pc' = "processing"
    /\ UNCHANGED <<df, i, wash_duration, gap_duration, first_wash_time,
                   last_wash_end_time, changeover_end_time, next_wash_start_time,
                   scheduled_washes_in_changeover, processing_end_time,
                   total_wash_overlap_duration, entryTime>>

\* lines 118-127: no enumerated wash intersects the changeover window.
ChangeoverCommitted ==
    /\ pc = "co_loop"
    /\ ~(next_wash_start_time < changeover_end_time)
    /\ SelectOverlapping(scheduled_washes_in_changeover,
                         current_time, changeover_end_time) = <<>>
    /\ tasks' = Append(tasks, ChangeoverTask(current_time, changeover_end_time, CurrentRow, i))
    /\ current_time' = changeover_end_time
    /\ pc' = "processing"
    /\ UNCHANGED <<df, i, wash_duration, gap_duration, first_wash_time,
                   last_wash_end_time, changeover_end_time, next_wash_start_time,
                   scheduled_washes_in_changeover, processing_end_time,
                   total_wash_overlap_duration, entryTime>>

\* lines 129-136; the division of line 131 needs a non-zero effective speed.
BeginProcessing ==
    /\ pc = "processing"
    /\ CurrentRow.speed * CurrentRow.efficiency # 0
    /\ processing_end_time' = current_time + ProcessingMinutes(CurrentRow)
    /\ total_wash_overlap_duration' = 0
    /\ next_wash_start_time' = NextWashStart(last_wash_end_time, gap_duration)
    /\ pc' = "proc_loop"
    /\ UNCHANGED <<df, i, tasks, current_time, wash_duration, gap_duration,
                   first_wash_time, last_wash_end_time, changeover_end_time,
                   scheduled_washes_in_changeover, entryTime>>

\* Mutant: the candidate is tested against the window without its extension.
CandidateAcceptedNominalWindow ==
    /\ next_wash_start_time < processing_end_time
    /\ OverlapStart < OverlapEnd

\* Mutant: every candidate that starts before the window's end is taken.
CandidateAcceptedUntested ==
    next_wash_start_time < processing_end_time + total_wash_overlap_duration

\* line 137 and line 142: the loop continues with this candidate.
CandidateAccepted ==
    /\ next_wash_start_time < processing_end_time + total_wash_overlap_duration
    /\ OverlapStart < OverlapEnd

\* lines 137-154: one iteration of the processing wash loop.
ProcessingWashStep ==
    /\ pc = "proc_loop"
    /\ CandidateAccepted
    /\ Len(tasks) < MaxTasks
    /\ LET wash_end_time == next_wash_start_time + wash_duration IN
       /\ total_wash_overlap_duration' =
              total_wash_overlap_duration + (OverlapEnd - OverlapStart)
       /\ tasks' = IF ~(first_wash_time.present /\ next_wash_start_time = first_wash_time.t)
                   THEN Append(tasks, WashTask(next_wash_start_time, wash_end_time, WashOrder))
                   ELSE tasks
       /\ last_wash_end_time' = wash_end_time
       /\ next_wash_start_time' = NextWashStart(wash_end_time, gap_duration)
    /\ UNCHANGED <<df, pc, i, current_time, wash_duration, gap_duration,
                   first_wash_time, changeover_end_time,
                   scheduled_washes_in_changeover, processing_end_time, entryTime>>

\* lines 155-190: the loop is left (condition false or break), the
\* processing segments are emitted and the cursor moves to the extended end.
EmitSegments ==
    /\ pc = "proc_loop"
    /\ ~CandidateAccepted
    /\ LET extended_processing_end_time ==
               ExtendedProcessingEnd(processing_end_time, total_wash_overlap_duration) IN
       /\ tasks' = tasks \o ProcessingSegments(tasks, current_time, processing_end_time,
                                               extended_processing_end_time, CurrentRow, i)
       /\ current_time' = extended_processing_end_time
    /\ i' = i + 1
    /\ pc' = IF i + 1 < Len(df.rows) THEN "row" ELSE "done"
    /\ UNCHANGED <<df, wash_duration, gap_duration, first_wash_time,
                   last_wash_end_time, changeover_end_time, next_wash_start_time,
                   scheduled_washes_in_changeover, processing_end_time,
                   total_wash_overlap_duration, entryTime>>

Next ==
    \/ ParseWashPolicy
    \/ AnchorFirstWash
    \/ FirstRow
    \/ BeginChangeover
    \/ ChangeoverWashStep
    \/ ChangeoverSuppressed
    \/ ChangeoverCommitted
    \/ BeginProcessing
    \/ ProcessingWashStep
    \/ EmitSegments

Spec == Init /\ [][Next]_vars

(***************************************************************************)
(* Plans with caller/data errors: rows whose effective speed is not        *)
(* positive or whose quantity is negative.                                 *)
(***************************************************************************)
DataError(row) == row.speed * row.efficiency <= 0 \/ row.quantity < 0

DataRowChoices ==
    { Row(3, 60, 100, 3), Row(3, 60, 50, 0),
      Row(-3, 60, 100, 3), Row(3, -60, 100, 0), Row(3, 0, 100, 3), Row(3, 60, 0, 0) }

DataPlans ==
    { [rows |-> r, Duration |-> IntCell(2), Gap |-> g, FirstWashTime |-> f] :
        r \in UNION { [1..n -> DataRowChoices] : n \in 1..MaxRows },
        g \in { IntCell(2), IntCell(3) }, f \in { MissingCell, TimeCell(-7) } }

InitData ==
    /\ df \in DataPlans
    /\ pc = "parse_wash"
    /\ i = 0
    /\ tasks = <<>>
    /\ current_time = 0
    /\ wash_duration = 0
    /\ gap_duration = 0
    /\ first_wash_time = [present |-> FALSE, t |-> 0]
    /\ last_wash_end_time = 0
    /\ changeover_end_time = 0
    /\ next_wash_start_time = 0
    /\ scheduled_washes_in_changeover = <<>>
    /\ processing_end_time = 0
    /\ total_wash_overlap_duration = 0
    /\ entryTime = 0

\* lines 130-132 with effective_speed = 0: the division raises
\* (ZeroDivisionError; with numpy scalars the quotient is inf or nan and
\* timedelta(hours=...) raises) and generate_timeline is left.
ProcessingRaises ==
    /\ pc = "processing"
    /\ CurrentRow.speed * CurrentRow.efficiency = 0
    /\ pc' = "error"
    /\ UNCHANGED <<df, i, tasks, current_time, wash_duration, gap_duration,
                   first_wash_time, last_wash_end_time, changeover_end_time,
                   next_wash_start_time, scheduled_washes_in_changeover,
                   processing_end_time, total_wash_overlap_duration, entryTime>>

NextData == Next \/ ProcessingRaises

SpecData == InitData /\ [][NextData]_vars

(***************************************************************************)
(* Properties                                                              *)
(***************************************************************************)
TaskIdx == 1..Len(tasks)

\* The state right after the processing phase of a row: the row just
\* finished has index i - 1, was entered at entryTime and left at
\* current_time.
RunCompleted == pc \in {"row", "done"} /\ i >= 1
CompletedRun == i - 1
CompletedRow == df.rows[i]

RECURSIVE SelectOrder(_, _)
SelectOrder(ts, o) ==
    IF ts = <<>> THEN <<>>
    ELSE IF Head(ts).order = o THEN <<Head(ts)>> \o SelectOrder(Tail(ts), o)
         ELSE SelectOrder(Tail(ts), o)

RECURSIVE SelectTask(_, _)
SelectTask(ts, kind) ==
    IF ts = <<>> THEN <<>>
    ELSE IF Head(ts).task = kind THEN <<Head(ts)>> \o SelectTask(Tail(ts), kind)
         ELSE SelectTask(Tail(ts), kind)

RECURSIVE TotalLength(_)
TotalLength(ts) ==
    IF ts = <<>> THEN 0 ELSE (Head(ts).end - Head(ts).start) + TotalLength(Tail(ts))

NoWashCommitted == \A k \in TaskIdx : tasks[k].task # "wash"

\* The pass has finished, or can take another step.
Progressing == pc = "done" \/ ENABLED Next

\* The bounded lists are filled only by a loop that never leaves: with a
\* positive gap every explored run ends well inside the bound.
BoundReachedOnlyWithoutGap ==
    (\/ pc = "co_loop" /\ Len(scheduled_washes_in_changeover) >= MaxTasks
     \/ pc = "proc_loop" /\ Len(tasks) >= MaxTasks) => gap_duration = 0

\* C1 -- No-overlap: any two committed intervals are identical in time or
\* do not strictly intersect.
C1_NoOverlap ==
    \A a, b \in TaskIdx :
        \/ tasks[a].start = tasks[b].start /\ tasks[a].end = tasks[b].end
        \/ ~(Max2(tasks[a].start, tasks[b].start) < Min2(tasks[a].end, tasks[b].end))

\* C2 -- Coverage: when a run is finished, its processing and changeover
\* intervals lie in [entryTime, exitTime) and, together with the committed
\* washes, cover every minute of [entryTime, exitTime).
C2_Coverage ==
    RunCompleted =>
        /\ \A k \in TaskIdx :
               tasks[k].order = CompletedRun =>
                   entryTime <= tasks[k].start /\ tasks[k].end <= current_time
        /\ \A t \in entryTime..(current_time - 1) :
               \E k \in TaskIdx :
                   /\ tasks[k].order = CompletedRun \/ tasks[k].task = "wash"
                   /\ tasks[k].start <= t /\ t < tasks[k].end

\* C3 -- Termination: from every state the scheduling pass reaches, either
\* it has finished or a further step exists; no wash-candidate loop is still
\* running when the bound on its list is exhausted.
C3_Termination == Progressing

\* C4 -- Degraded wash configuration: when the Duration or Gap cell of row 0
\* does not convert, no wash is ever committed and the pass runs on to
\* completion.
C4_DegradedCompletes ==
    ~(Parses(df.Duration) /\ Parses(df.Gap)) => NoWashCommitted /\ Progressing

\* The changeover and processing intervals of a finished run when nothing
\* interferes: [entry, entry + change over) for i > 0, then the nominal
\* processing span.
NominalRunTasks ==
    LET co == IF CompletedRun > 0 THEN CompletedRow.change_over ELSE 0
        p == 60 * 100 * CompletedRow.quantity
    IN (IF CompletedRun > 0
        THEN <<[start |-> entryTime, end |-> entryTime + co, task |-> "changeover",
                product |-> CompletedRow.name, order |-> CompletedRun]>>
        ELSE <<>>)
       \o <<[start |-> entryTime + co, task |-> "processing",
             end |-> entryTime + co + p \div (CompletedRow.speed * CompletedRow.efficiency),
             product |-> CompletedRow.name, order |-> CompletedRun]>>

\* C5 -- Wash disabling: with a wash duration of 0 (any gap) the pass
\* completes, commits no wash, and every finished run has exactly its
\* changeover interval (i > 0) and one processing interval of nominal span.
C5_WashDisabled ==
    (pc # "parse_wash" /\ wash_duration = 0) =>
        /\ NoWashCommitted
        /\ RunCompleted => SelectOrder(tasks, CompletedRun) = NominalRunTasks
        /\ Progressing

\* C6 -- Every committed interval has start < end.
C6_PositiveLength == \A k \in TaskIdx : tasks[k].start < tasks[k].end

\* C7 -- Monotonic cursor: no step of the pass moves current_time backwards.
C7_MonotonicCursor == [][current_time' >= current_time]_vars

\* The changeover of row i > 0 was suppressed and the cursor moved to the end
\* of a wash.
C7_Witness ==
    /\ pc = "processing" /\ i > 0
    /\ \A k \in TaskIdx : tasks[k].order # i
    /\ current_time > entryTime

\* C8 -- Processing time is conserved: the processing intervals of a
\* finished run add up to its nominal duration quantity / (speed * efficiency).
C8_ProcessingConserved ==
    RunCompleted =>
        TotalLength(SelectTask(SelectOrder(tasks, CompletedRun), "processing")) * CompletedRow.speed * CompletedRow.efficiency
            = 60 * 100 * CompletedRow.quantity

Span(t) == <<t.start, t.end>>
Spans(ts) == [k \in DOMAIN ts |-> Span(ts[k])]
ProcessingSpans(o) == Spans(SelectTask(SelectOrder(tasks, o), "processing"))
WashSpans == Spans(SelectTask(tasks, "wash"))
ChangeoverSpans == Spans(SelectTask(tasks, "changeover"))

\* C9 (as stated) -- Two-product scenario: one 30 min wash at T0+2h splits
\* product 1 into [T0, T0+2h) and [T0+2h30, T0+6h30); changeover
\* [T0+6h30, T0+7h15); product 2 starts processing at T0+7h15.
C9_TwoProductScenario ==
    (df = TwoProductPlan /\ pc = "done") =>
        /\ <<120, 150>> \in Range(WashSpans)
        /\ ProcessingSpans(0) = << <<0, 120>>, <<150, 390>> >>
        /\ ChangeoverSpans = << <<390, 435>> >>
        /\ ProcessingSpans(1)[1][1] = 435

\* C9 (amended) -- Two-product scenario: washes at T0+2h and T0+4h30 split
\* product 1 into [T0, T0+2h), [T0+2h30, T0+4h30) and [T0+5h, T0+7h); the
\* wash [T0+7h, T0+7h30) suppresses the changeover; product 2 starts
\* processing at T0+7h30.
C9_TwoProductScenarioAmended ==
    (df = TwoProductPlan /\ pc = "done") =>
        /\ <<120, 150>> \in Range(WashSpans) /\ <<270, 300>> \in Range(WashSpans)
        /\ ProcessingSpans(0) = << <<0, 120>>, <<150, 270>>, <<300, 420>> >>
        /\ <<420, 450>> \in Range(WashSpans)
        /\ ChangeoverSpans = <<>>
        /\ ProcessingSpans(1)[1][1] = 450

C9_Witness == df = TwoProductPlan /\ pc = "done" /\ Len(ProcessingSpans(1)) > 0

\* C10 -- Pre-anchored first wash: with a First Wash Time and a positive
\* wash duration the first committed interval is the wash
\* [firstWashTime, firstWashTime + duration) with order -2, lastWashEnd starts
\* at its end, every other wash has order -1 and every other interval the
\* index of its row, so it alone has the smallest order; in the scenario it
\* is [T0-1h, T0-40min).
C10_PreAnchoredFirstWash ==
    (pc \notin {"parse_wash", "first_wash"} /\ df.FirstWashTime.kind = "time"
        /\ wash_duration > 0) =>
        /\ Len(tasks) >= 1
        /\ tasks[1] = [start |-> df.FirstWashTime.val,
                       end |-> df.FirstWashTime.val + df.Duration.val,
                       task |-> "wash", product |-> "Scheduled Wash", order |-> -2]
        /\ \A k \in TaskIdx \ {1} :
               IF tasks[k].task = "wash" THEN tasks[k].order = -1
               ELSE tasks[k].order \in 0..(Len(df.rows) - 1)
        /\ (pc = "row" /\ i = 0) =>
               last_wash_end_time = df.FirstWashTime.val + df.Duration.val
        /\ last_wash_end_time >= df.FirstWashTime.val + df.Duration.val
        /\ df = PreAnchorPlan => Span(tasks[1]) = <<-60, -40>>

\* The scenario has run to the end, with later washes and both products
\* committed after the pre-anchored wash.
C10_Witness ==
    /\ df = PreAnchorPlan /\ pc = "done"
    /\ \E k \in TaskIdx \ {1} : tasks[k].task = "wash"
    /\ \E k \in TaskIdx : tasks[k].order = 1

\* C11 -- Changeover suppression rule: when the changeover phase of row
\* i > 0 ends, the changeover [currentTime, changeoverEnd) with order i is
\* committed and currentTime becomes changeoverEnd exactly when no wash
\* enumerated in the phase strictly intersects the window; otherwise no
\* interval of order i is committed and currentTime becomes the latest end
\* among the intersecting washes.
C11_ChangeoverSuppression ==
    [][(pc = "co_loop" /\ pc' = "processing") =>
        LET ws == scheduled_washes_in_changeover
            hit == { k \in DOMAIN ws :
                       Max2(current_time, ws[k].start) < Min2(changeover_end_time, ws[k].end) }
        IN IF hit = {}
           THEN /\ tasks' = Append(tasks, [start |-> current_time, end |-> changeover_end_time,
                                           task |-> "changeover", product |-> CurrentRow.name,
                                           order |-> i])
                /\ current_time' = changeover_end_time
           ELSE /\ \A k \in DOMAIN tasks' : tasks'[k].order # i
                /\ \A k \in hit : ws[k].end <= current_time'
                /\ \E k \in hit : ws[k].end = current_time'
      ]_vars

\* A wash of positive length ends exactly where the changeover window starts
\* and the changeover was committed.
C11_Witness ==
    /\ pc = "processing" /\ i > 0 /\ wash_duration > 0
    /\ \E k \in TaskIdx : tasks[k].task = "changeover" /\ tasks[k].order = i
                            /\ tasks[k].start < tasks[k].end
                            /\ \E j \in DOMAIN scheduled_washes_in_changeover :
                                   scheduled_washes_in_changeover[j].end = tasks[k].start

\* C12 -- Changeover-phase washes are all committed: after a changeover
\* phase every wash candidate of positive length enumerated in it (for which
\* lastWashEnd was advanced) is a wash interval of the output.
C12_ChangeoverWashesCommitted ==
    (pc \in {"processing", "proc_loop"} /\ i > 0) =>
        \A j \in DOMAIN scheduled_washes_in_changeover :
            LET w == scheduled_washes_in_changeover[j] IN
            w.start < w.end =>
                \E k \in TaskIdx : /\ tasks[k].task = "wash"
                                   /\ tasks[k].start = w.start /\ tasks[k].end = w.end

\* C13 -- Caller/data errors fail fast: a row with speed * efficiency <= 0
\* or a negative quantity never gets into the wash loop of its processing
\* phase, never completes as a run, never moves the cursor backwards and
\* never gets a processing interval.
C13_FailFast ==
    /\ pc = "proc_loop" => ~DataError(CurrentRow)
    /\ RunCompleted => ~DataError(CompletedRow) /\ current_time >= entryTime
    /\ \A k \in TaskIdx :
           tasks[k].task = "processing" => ~DataError(df.rows[tasks[k].order + 1])

C16_FixedPointComplete ==
    [][(pc = "proc_loop" /\ pc' # "proc_loop" /\ wash_duration > 0 /\ gap_duration > 0) =>
        LET candidate_start == last_wash_end_time + gap_duration
            candidate_end == candidate_start + wash_duration
        IN /\ current_time' = processing_end_time + total_wash_overlap_duration
           /\ (processing_end_time - current_time) * CurrentRow.speed * CurrentRow.efficiency
                  = 60 * 100 * CurrentRow.quantity
           /\ last_wash_end_time' = last_wash_end_time
           /\ ~(Max2(current_time, candidate_start) < Min2(current_time', candidate_end))
      ]_vars

\* A processing phase that committed washes has ended.
C16_Witness ==
    /\ RunCompleted /\ wash_duration > 0 /\ gap_duration > 0
    /\ total_wash_overlap_duration > wash_duration

WashIdx == { k \in TaskIdx : tasks[k].task = "wash" }

\* Every committed wash has the wash duration as its length, and of two
\* committed washes the later starts no earlier than the earlier one's end
\* plus the gap.
WashesPeriodic ==
    /\ \A k \in WashIdx : tasks[k].end - tasks[k].start = wash_duration
    /\ \A a, b \in WashIdx :
           (a # b /\ tasks[a].start <= tasks[b].start) =>
               tasks[a].end + gap_duration <= tasks[b].start

\* C17 -- Wash periodicity: once assigned (lines 59-65), lastWashEnd never
\* decreases, and after every step any two wash intervals of the output (the
\* pre-anchored one included) are separated by at least the gap and have the
\* wash duration as length.
C17_WashPeriodicity ==
    [][/\ pc \notin {"parse_wash", "first_wash"} =>
              last_wash_end_time' >= last_wash_end_time
       /\ WashesPeriodic']_vars

\* The pre-anchored wash and at least two later washes are committed, with a
\* positive gap.
C17_Witness ==
    /\ pc = "done" /\ gap_duration > 0
    /\ \E k \in WashIdx : tasks[k].order = -2
    /\ Cardinality(WashIdx) >= 3

\* The next wash candidate ends at or before the cursor.
PendingStalled ==
    /\ pc \notin {"parse_wash", "first_wash"}
    /\ last_wash_end_time + gap_duration + wash_duration <= current_time

\* C18 -- Stalled wash candidate: while the next candidate ends at or before
\* currentTime, a processing phase commits no wash and leaves lastWashEnd
\* unchanged, it ends with currentTime at the nominal processingEnd and the
\* candidate still pending; lastWashEnd moves on only in a changeover loop.
C18_StalledCandidate ==
    [][/\ (PendingStalled /\ pc \in {"processing", "proc_loop"}) =>
              /\ last_wash_end_time' = last_wash_end_time
              /\ \A k \in DOMAIN tasks' : k > Len(tasks) => tasks'[k].task = "processing"
              /\ last_wash_end_time' + gap_duration + wash_duration <= current_time'
              /\ pc = "proc_loop" =>
                     /\ pc' # "proc_loop"
                     /\ current_time' = processing_end_time
                     /\ (processing_end_time - current_time) * CurrentRow.speed
                            * CurrentRow.efficiency = 60 * 100 * CurrentRow.quantity
       /\ (PendingStalled /\ last_wash_end_time' # last_wash_end_time) => pc = "co_loop"
      ]_vars

\* The first run has ended although the candidate after the pre-anchored
\* wash ended before the run began.
C18_Witness ==
    /\ RunCompleted /\ CompletedRun = 0 /\ wash_duration > 0
    /\ first_wash_time.present
    /\ last_wash_end_time + gap_duration + wash_duration <= entryTime
    /\ \E k \in TaskIdx : tasks[k].task = "processing"

(***************************************************************************)
(* The legacy variant: generate_timeline of production_planner.py          *)
(* (lines 26-154).  It has no First Wash Time, its processing loop commits *)
(* every candidate that starts before processing_end_time and it does not  *)
(* extend the processing window.  Its changeover phase (lines 59-102) is   *)
(* the code of appv2.py lines 87-127.                                      *)
(***************************************************************************)
LegacyPlans == { p \in GenericPlans : p.FirstWashTime = MissingCell }

\* production_planner.py lines 26-35
LegacyInit ==
    /\ df \in LegacyPlans
    /\ pc = "parse_wash"
    /\ i = 0
    /\ tasks = <<>>
    /\ current_time = 0
    /\ wash_duration = 0
    /\ gap_duration = 0
    /\ first_wash_time = [present |-> FALSE, t |-> 0]
    /\ last_wash_end_time = 0
    /\ changeover_end_time = 0
    /\ next_wash_start_time = 0
    /\ scheduled_washes_in_changeover = <<>>
    /\ processing_end_time = 0
    /\ total_wash_overlap_duration = 0
    /\ entryTime = 0

\* production_planner.py lines 37-48
LegacyParseWashPolicy ==
    /\ pc = "parse_wash"
    /\ wash_duration' = WashDurationOf(df)
    /\ gap_duration' = GapDurationOf(df)
    /\ last_wash_end_time' = 0
    /\ pc' = "row"
    /\ UNCHANGED <<df, i, tasks, current_time, first_wash_time,
                   changeover_end_time, next_wash_start_time,
                   scheduled_washes_in_changeover, processing_end_time,
                   total_wash_overlap_duration, entryTime>>

\* production_planner.py lines 51-59
LegacyFirstRow == FirstRow
\* production_planner.py lines 59-65
LegacyBeginChangeover == BeginChangeover
\* production_planner.py lines 66-70
LegacyChangeoverWashStep == ChangeoverWashStep
\* production_planner.py lines 72-92
LegacyChangeoverSuppressed == ChangeoverSuppressed
\* production_planner.py lines 93-102
LegacyChangeoverCommitted == ChangeoverCommitted
\* production_planner.py lines 104-110
LegacyBeginProcessing == BeginProcessing

\* production_planner.py lines 111-122: one iteration of the processing
\* wash loop; the candidate is committed without an overlap test.
LegacyProcessingWashStep ==
    /\ pc = "proc_loop"
    /\ next_wash_start_time < processing_end_time
    /\ Len(tasks) < MaxTasks
    /\ LET wash_end_time == next_wash_start_time + wash_duration IN
       /\ tasks' = Append(tasks, WashTask(next_wash_start_time, wash_end_time, WashOrder))
       /\ last_wash_end_time' = wash_end_time
       /\ next_wash_start_time' = NextWashStart(wash_end_time, gap_duration)
    /\ UNCHANGED <<df, pc, i, current_time, wash_duration, gap_duration,
                   first_wash_time, changeover_end_time,
                   scheduled_washes_in_changeover, processing_end_time,
                   total_wash_overlap_duration, entryTime>>

\* production_planner.py lines 124-154: segments up to processing_end_time.
LegacyEmitSegments ==
    /\ pc = "proc_loop"
    /\ ~(next_wash_start_time < processing_end_time)
    /\ tasks' = tasks \o ProcessingSegments(tasks, current_time, processing_end_time,
                                            processing_end_time, CurrentRow, i)
    /\ current_time' = processing_end_time
    /\ i' = i + 1
    /\ pc' = IF i + 1 < Len(df.rows) THEN "row" ELSE "done"
    /\ UNCHANGED <<df, wash_duration, gap_duration, first_wash_time,
                   last_wash_end_time, changeover_end_time, next_wash_start_time,
                   scheduled_washes_in_changeover, processing_end_time,
                   total_wash_overlap_duration, entryTime>>

LegacyNext ==
    \/ LegacyParseWashPolicy
    \/ LegacyFirstRow
    \/ LegacyBeginChangeover
    \/ LegacyChangeoverWashStep
    \/ LegacyChangeoverSuppressed
    \/ LegacyChangeoverCommitted
    \/ LegacyBeginProcessing
    \/ LegacyProcessingWashStep
    \/ LegacyEmitSegments

LegacySpec == LegacyInit /\ [][LegacyNext]_vars

\* C19 -- Legacy variant: with Duration = 0 and Gap > 0 the output has no
\* wash interval, every interval has start < end, and every finished run has
\* exactly one processing interval, of nominal span.
C19_LegacyWashDisabled ==
    (pc # "parse_wash" /\ df.Duration = IntCell(0) /\ gap_duration > 0) =>
        /\ NoWashCommitted
        /\ \A k \in TaskIdx : tasks[k].start < tasks[k].end
        /\ RunCompleted =>
               /\ Len(ProcessingSpans(CompletedRun)) = 1
               /\ ProcessingSpans(CompletedRun)[1][2] = current_time
               /\ (current_time - ProcessingSpans(CompletedRun)[1][1])
                      * CompletedRow.speed * CompletedRow.efficiency
                      = 60 * 100 * CompletedRow.quantity

====
